---- MODULE Spec2Model ----
(***************************************************************************)
(* MacVideoServer, src/src/server.cpp: a read-only HTTP file server on     *)
(* libmicrohttpd.  handle_request validates a GET, parses the Range        *)
(* header, builds a FileState and hands file_reader / file_free to the     *)
(* transport, which pulls the body and releases the state.                 *)
(*                                                                         *)
(* Strings are sequences of one-character strings.  uint64_t values live   *)
(* in 0..WordMod-1 and every uint64_t operation is taken modulo WordMod.   *)
(* Time is counted in hundredths of a second.                              *)
(***************************************************************************)
EXTENDS Integers, Sequences, FiniteSets, TLC

\* Bounds of the model.
WordMod == 16
MaxSize == 3
MaxPull == 2
TickLen == 30
MaxTime == 120
MaxCalls == 2

\* Program constants.
READ_CHUNK == 64 * 1024
PrintAfter == 45

ULLONG_MAX == WordMod - 1

U64(x) == ((x % WordMod) + WordMod) % WordMod

Min(a, b) == IF a <= b THEN a ELSE b

-----------------------------------------------------------------------------
(* C library string functions, as the handler uses them.                   *)

NoHeader == <<"<null>">>

IsDigit(ch) == ch \in {"0", "1", "2", "3", "4", "5", "6", "7", "8", "9"}

DigitVal(ch) ==
  CASE ch = "0" -> 0 [] ch = "1" -> 1 [] ch = "2" -> 2 [] ch = "3" -> 3
    [] ch = "4" -> 4 [] ch = "5" -> 5 [] ch = "6" -> 6 [] ch = "7" -> 7
    [] ch = "8" -> 8 [] ch = "9" -> 9

IsSpace(ch) == ch \in {" ", "\t", "\n", "\r"}

RECURSIVE SkipSpace(_)
SkipSpace(s) ==
  IF s # <<>> /\ IsSpace(Head(s)) THEN SkipSpace(Tail(s)) ELSE s

\* The digit run at the front of s: [any |-> a digit was consumed,
\* ovf |-> the value left the uint64_t range, val |-> the value so far].
RECURSIVE DigitRun(_, _)
DigitRun(s, acc) ==
  IF s = <<>> \/ ~IsDigit(Head(s))
    THEN acc
    ELSE LET v == acc.val * 10 + DigitVal(Head(s))
         IN  DigitRun(Tail(s),
                      IF acc.ovf \/ v > ULLONG_MAX
                        THEN [any |-> TRUE, ovf |-> TRUE, val |-> ULLONG_MAX]
                        ELSE [any |-> TRUE, ovf |-> FALSE, val |-> v])

\* strtoull(nptr, nullptr, 10): leading white space, an optional sign, then
\* digits; 0 when there is no digit, ULLONG_MAX on overflow, the negation
\* modulo 2^64 after a minus sign.
strtoull(nptr) ==
  LET s      == SkipSpace(nptr)
      signed == s # <<>> /\ Head(s) \in {"+", "-"}
      neg    == s # <<>> /\ Head(s) = "-"
      d      == DigitRun(IF signed THEN Tail(s) ELSE s,
                         [any |-> FALSE, ovf |-> FALSE, val |-> 0])
  IN  IF ~d.any THEN 0
      ELSE IF d.ovf THEN ULLONG_MAX
      ELSE IF neg THEN U64(0 - d.val)
      ELSE d.val

\* strstr(haystack, needle) != nullptr
strstr(h, n) ==
  \E i \in 1..(Len(h) + 1) :
    /\ i + Len(n) - 1 <= Len(h)
    /\ SubSeq(h, i, i + Len(n) - 1) = n

\* strchr(s, ch) as a 1-based index, 0 for nullptr
strchr(s, ch) ==
  IF \E i \in 1..Len(s) : s[i] = ch
    THEN CHOOSE i \in 1..Len(s) : s[i] = ch /\ \A j \in 1..(i - 1) : s[j] # ch
    ELSE 0

\* strncmp(s, p, Len(p)) == 0
strncmp0(s, p) == Len(s) >= Len(p) /\ SubSeq(s, 1, Len(p)) = p

\* A guard that looks for ".." only as the first path segment.
contains_dotdot_LeadingOnly(p) == strncmp0(p, <<"/", ".", ".">>)

contains_dotdot(p) == strstr(p, <<".", ".">>)

-----------------------------------------------------------------------------
(* Range header parsing of handle_request (lines 135-166).                 *)

BytesEq == <<"b", "y", "t", "e", "s", "=">>

\* The text after position i of s (the C pointer s + i).
After(s, i) == SubSeq(s, i + 1, Len(s))

\* Lines 144-153: the start of the window; r is range_hdr + 6, dash the
\* index of the first '-' in r.
RangeStart(r, dash, file_size) ==
  IF dash # 1
    THEN strtoull(r)
    ELSE LET suffix == strtoull(After(r, dash))
         IN  IF suffix >= file_size THEN 0 ELSE U64(file_size - suffix)

\* The end parsed from the text after the dash even when that text is empty.
RangeEnd_ParsesEmptyText(r, dash, file_size) == strtoull(After(r, dash))

\* Lines 155-159: the end of the window.
RangeEnd(r, dash, file_size) ==
  IF After(r, dash) # <<>>
    THEN strtoull(After(r, dash))
    ELSE U64(file_size - 1)

\* The bounds test without the comparison against the file size.
RangeRefused_NoSizeTest(start, end, file_size) == start > end

\* Line 160: the bounds test.
RangeRefused(start, end, file_size) == start > end \/ start >= file_size

\* Line 136: the default end.
DefaultEnd(file_size) == IF file_size > 0 THEN file_size - 1 ELSE 0

\* Lines 135-166: [start, end, is_partial, refused].
ParseRange(range_hdr, file_size) ==
  LET dflt == [start |-> 0, end |-> DefaultEnd(file_size),
               is_partial |-> FALSE, refused |-> FALSE]
  IN  IF range_hdr = NoHeader \/ ~strncmp0(range_hdr, BytesEq)
        THEN dflt
        ELSE LET r    == After(range_hdr, 6)
                 dash == strchr(r, "-")
             IN  IF dash = 0
                   THEN dflt
                   ELSE LET start == RangeStart(r, dash, file_size)
                            end   == RangeEnd(r, dash, file_size)
                        IN  [start |-> start, end |-> end, is_partial |-> TRUE,
                             refused |-> RangeRefused(start, end, file_size)]

\* Line 168.
ContentLength(start, end) == U64(end - start + 1)

\* Lines 190-212: the Content-Type.
MimeOf(url) ==
  IF strstr(url, <<".", "m", "p", "4">>) THEN "video/mp4"
  ELSE IF strstr(url, <<".", "m", "3", "u", "8">>) THEN "application/x-mpegURL"
  ELSE IF strstr(url, <<".", "t", "s">>) THEN "video/mp2t"
  ELSE IF strstr(url, <<".", "h", "t", "m", "l">>) THEN "text/html; charset=utf-8"
  ELSE IF strstr(url, <<".", "j", "s">>) THEN "application/javascript"
  ELSE IF strstr(url, <<".", "c", "s", "s">>) THEN "text/css"
  ELSE IF strstr(url, <<".", "j", "p", "g">>) \/ strstr(url, <<".", "j", "p", "e", "g">>)
    THEN "image/jpeg"
  ELSE IF strstr(url, <<".", "p", "n", "g">>) THEN "image/png"
  ELSE IF strstr(url, <<".", "g", "i", "f">>) THEN "image/gif"
  ELSE IF strstr(url, <<".", "v", "t", "t">>) THEN "text/vtt; charset=utf-8"
  ELSE IF strstr(url, <<".", "s", "r", "t">>) THEN "application/x-subrip"
  ELSE "application/octet-stream"

-----------------------------------------------------------------------------
(* The state.                                                              *)

VARIABLES
  fileSize,   \* st_size of the regular files under MOVIE_DIR
  now,        \* std::chrono::steady_clock, hundredths of a second
  phase,      \* per connection: "idle", "refused", "streaming", "closed"
  req,        \* per connection: the request handle_request was called with
  fs,         \* per connection: the FileState (NoState when none is allocated)
  resp,       \* per connection: the MHD_Response (NoResp when none was created)
  io,         \* per connection: what the request did to the file system
  xfer,       \* per connection: the transport's view of the body
  rd,         \* per connection: the last call of file_reader and its result
  thr,        \* per thread: where an invocation of file_reader stands
  acct        \* the FILE position and the byte counts of those invocations

vars == <<fileSize, now, phase, req, fs, resp, io, xfer, rd, thr, acct>>

\* What the whole-callback actions leave alone.
aux == <<rd, thr, acct>>

Conns == {"c1", "c2"}

NoReq   == [method |-> "<none>", url |-> <<>>, range |-> NoHeader]
NoState == [file |-> "<null>"]
NoRange == <<>>
NoResp  ==
  [status |-> 0, content_length |-> 0, content_type |-> "", accept_ranges |-> "",
   allow_origin |-> "", content_range |-> NoRange, queued |-> FALSE]

\* The byte stored at absolute offset k of a file.
DiskByte(k) == 100 + k

\* stats, fopens: calls made; fopened: handles fopen returned; open: handles
\* not yet closed; news / deletes: FileStates allocated / deleted; frees: calls
\* of file_free; done_total: the total file_free printed; born: the time the
\* FileState was constructed; emits: the times of the throughput lines.
NoIo ==
  [stats |-> 0, fopens |-> 0, fopened |-> 0, fcloses |-> 0, freads |-> 0,
   open |-> 0, news |-> 0, deletes |-> 0, frees |-> 0, refusal |-> "none",
   done_total |-> -1, born |-> -1, emits |-> <<>>]

NoXfer == [pos |-> 0, body |-> <<>>, fin |-> "none"]

\* No call of file_reader yet (n = -1).
NoCall == [pos |-> 0, max |-> 0, n |-> -1, buf |-> <<>>, ok |-> TRUE]

\* The threads that may run file_reader on one FileState at the same time.
Threads == {"t1", "t2"}

\* A thread outside file_reader.  pos, max: the arguments; r: what fread
\* returned; t: the time read at line 55; seen: the value b that
\* since_last.exchange(0) returned.
NoThread == [pc |-> "out", pos |-> 0, max |-> 0, r |-> 0, seen |-> 0, t |-> 0]

\* calls: invocations started; returned: the byte counts returned so far;
\* swapped: the bytes the emissions took out of since_last; fpos: the
\* position of the FILE the invocations share; overlap: an invocation
\* started while another one was in progress.
NoAcct ==
  [calls |-> 0, returned |-> 0, swapped |-> 0, fpos |-> 0, overlap |-> FALSE]

\* struct FileState as handle_request fills it (lines 23-35, 171-176).  The
\* fields estimated_bitrate and target_fps feed only the printed fps estimate
\* and are left out.
FileState(f, start, file_size, t) ==
  [file |-> f, offset_base |-> start, file_size |-> file_size,
   total_sent |-> 0, since_last |-> 0, last_print |-> t]

Init ==
  /\ fileSize \in 0..MaxSize
  /\ now = 0
  /\ phase = [c \in Conns |-> "idle"]
  /\ req = [c \in Conns |-> NoReq]
  /\ fs = [c \in Conns |-> NoState]
  /\ resp = [c \in Conns |-> NoResp]
  /\ io = [c \in Conns |-> NoIo]
  /\ xfer = [c \in Conns |-> NoXfer]
  /\ rd = [c \in Conns |-> NoCall]
  /\ thr = [t \in Threads |-> NoThread]
  /\ acct = NoAcct

-----------------------------------------------------------------------------
(* file_free (lines 76-86), as a change of one connection's io record:     *)
(* fclose of the handle, the "Done" line with total_sent, delete.          *)

\* A release that forgets the fclose of line 81.
file_free_LeaksHandle(s, rec) ==
  [rec EXCEPT !.done_total = s.total_sent, !.deletes = @ + 1, !.frees = @ + 1]

file_free(s, rec) ==
  [rec EXCEPT !.fcloses = IF s.file # "<null>" THEN @ + 1 ELSE @,
              !.open = IF s.file # "<null>" THEN @ - 1 ELSE @,
              !.done_total = s.total_sent,
              !.deletes = @ + 1,
              !.frees = @ + 1]

-----------------------------------------------------------------------------
(* handle_request (lines 95-232).  inp is the request (method, url, range) *)
(* together with what the environment answers: stat ("enoent", "notreg",   *)
(* "reg"), fopen, MHD_create_response_from_callback and MHD_queue_response *)
(* (TRUE for success).  The result is the connection's new state.          *)

\* return MHD_NO after nstat calls of stat, nfopen of fopen (nopened of them
\* successful), nclose of fclose, nnew of new FileState and ndelete of delete.
Refusal(why, nstat, nfopen, nopened, nclose, nnew, ndelete) ==
  [phase |-> "refused", fs |-> NoState, resp |-> NoResp, xfer |-> NoXfer,
   io |-> [NoIo EXCEPT !.refusal = why, !.stats = nstat, !.fopens = nfopen,
                       !.fopened = nopened, !.open = nopened - nclose,
                       !.fcloses = nclose, !.news = nnew, !.deletes = ndelete]]

\* Lines 104-105, 108-109, 115-116, 121-122: the returns before a file is open.
MethodRefusal == Refusal("method", 0, 0, 0, 0, 0, 0)
DotDotRefusal == Refusal("dotdot", 0, 0, 0, 0, 0, 0)
StatRefusal   == Refusal("stat", 1, 0, 0, 0, 0, 0)
FopenRefusal  == Refusal("fopen", 1, 1, 0, 0, 0, 0)

\* The range refusal without the fclose of line 161.
RangeRefusal_NoClose == Refusal("range", 1, 1, 1, 0, 0, 0)

\* Lines 160-163: fclose(f); return MHD_NO.
RangeRefusal == Refusal("range", 1, 1, 1, 1, 0, 0)

\* Lines 182-186: fclose(f); delete stt; return MHD_NO.
CreateRefusal == Refusal("create", 1, 1, 1, 1, 1, 1)

\* Lines 188-227: the response's status and headers.
Response(url, start, end, file_size, is_partial, content_length, queued) ==
  [status |-> IF is_partial THEN 206 ELSE 200,
   content_length |-> content_length,
   content_type |-> MimeOf(url),
   accept_ranges |-> "bytes",
   allow_origin |-> "*",
   content_range |-> IF is_partial THEN <<start, end, file_size>> ELSE NoRange,
   queued |-> queued]

Handle(inp, file_size, t) ==
  IF inp.method # "GET" THEN MethodRefusal
  ELSE IF contains_dotdot(inp.url) THEN DotDotRefusal
  ELSE IF inp.stat # "reg" THEN StatRefusal
  ELSE IF ~inp.fopen THEN FopenRefusal
  ELSE
    LET rg  == ParseRange(inp.range, file_size)
        cl  == ContentLength(rg.start, rg.end)
        stt == FileState("open", rg.start, file_size, t)
        opened == [NoIo EXCEPT !.stats = 1, !.fopens = 1, !.fopened = 1,
                               !.open = 1, !.news = 1, !.born = t]
    IN  IF rg.refused THEN RangeRefusal
        ELSE IF ~inp.create THEN CreateRefusal
        ELSE IF inp.queue
          THEN [phase |-> "streaming", fs |-> stt,
                resp |-> Response(inp.url, rg.start, rg.end, file_size,
                                  rg.is_partial, cl, TRUE),
                xfer |-> NoXfer, io |-> opened]
          \* MHD_queue_response failed: MHD_destroy_response drops the last
          \* reference and the library calls file_free at once.
          ELSE [phase |-> "closed", fs |-> NoState,
                resp |-> Response(inp.url, rg.start, rg.end, file_size,
                                  rg.is_partial, cl, FALSE),
                xfer |-> [NoXfer EXCEPT !.fin = "queuefail"],
                io |-> file_free(stt, [opened EXCEPT !.refusal = "queue"])]

handle_request(c, inp) ==
  /\ phase[c] = "idle"
  /\ LET h == Handle(inp, fileSize, now)
     IN  /\ phase' = [phase EXCEPT ![c] = h.phase]
         /\ fs' = [fs EXCEPT ![c] = h.fs]
         /\ resp' = [resp EXCEPT ![c] = h.resp]
         /\ xfer' = [xfer EXCEPT ![c] = h.xfer]
         /\ io' = [io EXCEPT ![c] = h.io]
  /\ req' = [req EXCEPT ![c] = [method |-> inp.method, url |-> inp.url,
                                range |-> inp.range]]
  /\ UNCHANGED <<fileSize, now>>
  /\ UNCHANGED aux

-----------------------------------------------------------------------------
(* file_reader (lines 37-74), called by the transport with the logical     *)
(* offset pos and the buffer size max.  io_ok = FALSE is an I/O failure of *)
(* fseeko or fread.  Result: n, the ssize_t returned (0 stands for         *)
(* MHD_CONTENT_READER_END_OF_STREAM), the bytes put in buf, and the        *)
(* FileState afterwards.                                                   *)

\* Line 40: the absolute offset handed to fseeko, cast to off_t.
SeekOffset(s, pos) == U64(s.offset_base + pos)

\* Line 43: how many bytes fread delivers from absolute offset off.
Fread(off, max, size) == IF off >= size THEN 0 ELSE Min(max, size - off)

\* The first increment lands in since_last: total_sent is left behind.
AddTotalSent_IntoSinceLast(s, r) == [s EXCEPT !.since_last = U64(@ + r)]

\* Line 51: s->total_sent += r (one atomic read-modify-write).
AddTotalSent(s, r) == [s EXCEPT !.total_sent = U64(@ + r)]

\* Line 52: s->since_last += r (one atomic read-modify-write).
AddSinceLast(s, r) == [s EXCEPT !.since_last = U64(@ + r)]

\* A threshold test that prints whenever any time has passed.
ShouldPrint_AnyElapsed(s, t) == t - s.last_print > 0

\* Lines 55-57: elapsed >= 0.45 at time t.
ShouldPrint(s, t) == t - s.last_print >= PrintAfter

\* An emission that clears the running total together with the window.
Emit_ResetsTotal(s, t) ==
  [s EXCEPT !.total_sent = 0, !.since_last = 0, !.last_print = t]

\* A load in place of the exchange: the window keeps its count.
Exchange_NoReset(s) == s

\* Line 58: since_last.exchange(0) (one atomic read-modify-write; the value
\* it returns is s.since_last).
ExchangeSinceLast(s) == [s EXCEPT !.since_last = 0]

\* Line 70: s->last_print = now (a plain store).
StoreLastPrint(s, t) == [s EXCEPT !.last_print = t]

\* Lines 58-70: b = since_last.exchange(0), the line is printed,
\* last_print = now.
Emit(s, t) == StoreLastPrint(ExchangeSinceLast(s), t)

\* Lines 51-71: the meter, run without interruption.
Meter(s, r, t) ==
  LET counted == AddSinceLast(AddTotalSent(s, r), r)
  IN  IF ShouldPrint(counted, t) THEN Emit(counted, t) ELSE counted

file_reader(s, pos, max, io_ok, size, t) ==
  LET off == SeekOffset(s, pos)
      neg == off >= WordMod \div 2        \* (off_t) is negative: EINVAL
      r   == IF io_ok /\ ~neg THEN Fread(off, max, size) ELSE 0
  IN  IF r = 0
        THEN [n |-> 0, buf |-> <<>>, s |-> s, freads |-> IF neg THEN 0 ELSE 1,
              printed |-> FALSE]
        ELSE [n |-> r, buf |-> [i \in 1..r |-> DiskByte(off + i - 1)],
              s |-> Meter(s, r, t), freads |-> 1,
              printed |-> ShouldPrint(s, t)]

\* The buffer sizes the transport may pass at write position pos: at most
\* the block size given at line 180 and at most what is left to send.
PullSizes(pos, content_length) ==
  1..Min(Min(READ_CHUNK, MaxPull), content_length - pos)

\* One FileState kept in a static and handed to every request's callbacks.
ReaderCls_Static(c) == "c1"

\* Lines 171-180: the cls pointer the transport hands to file_reader and
\* file_free for connection c is the FileState allocated for that request.
ReaderCls(c) == c

Pull(c) ==
  /\ phase[c] = "streaming"
  /\ xfer[c].fin = "none"
  /\ xfer[c].pos < resp[c].content_length
  /\ fs[ReaderCls(c)] # NoState
  /\ \E max \in PullSizes(xfer[c].pos, resp[c].content_length), io_ok \in BOOLEAN :
       LET rr == file_reader(fs[ReaderCls(c)], xfer[c].pos, max, io_ok, fileSize, now)
       IN  /\ fs' = [fs EXCEPT ![ReaderCls(c)] = rr.s]
           /\ io' = [io EXCEPT ![c].freads = @ + rr.freads,
                               ![c].emits = IF rr.printed THEN Append(@, now) ELSE @]
           /\ xfer' = [xfer EXCEPT ![c] =
                 IF rr.n = 0
                   THEN [@ EXCEPT !.fin = IF io_ok THEN "eos" ELSE "ioerr"]
                   ELSE [@ EXCEPT !.pos = @ + rr.n, !.body = @ \o rr.buf]]
  /\ UNCHANGED <<fileSize, now, phase, req, resp>>
  /\ UNCHANGED aux

\* The client goes away while the body is being sent.
Disconnect(c) ==
  /\ phase[c] = "streaming"
  /\ xfer[c].fin = "none"
  /\ xfer[c].pos < resp[c].content_length
  /\ xfer' = [xfer EXCEPT ![c].fin = "disconnect"]
  /\ UNCHANGED <<fileSize, now, phase, req, fs, resp, io>>
  /\ UNCHANGED aux

\* The transport is done with the response (all of Content-Length sent, the
\* reader ended the stream, or the client left) and calls file_free.
Release(c) ==
  /\ phase[c] = "streaming"
  /\ xfer[c].fin # "none" \/ xfer[c].pos = resp[c].content_length
  /\ fs[ReaderCls(c)] # NoState
  /\ xfer' = [xfer EXCEPT ![c].fin = IF @ = "none" THEN "complete" ELSE @]
  /\ io' = [io EXCEPT ![c] = file_free(fs[ReaderCls(c)], @)]
  /\ fs' = [fs EXCEPT ![ReaderCls(c)] = NoState]
  /\ phase' = [phase EXCEPT ![c] = "closed"]
  /\ UNCHANGED <<fileSize, now, req, resp>>
  /\ UNCHANGED aux

Tick ==
  /\ now + TickLen <= MaxTime
  /\ now' = now + TickLen
  /\ UNCHANGED <<fileSize, phase, req, fs, resp, io, xfer>>
  /\ UNCHANGED aux

-----------------------------------------------------------------------------
(* The requests and environment answers the model draws from.              *)

Fields == {<<>>, <<"0">>, <<"1">>, <<"9">>, <<"9", "9">>, <<"a">>, <<"-", "1">>}

Bodies ==
  {f \o <<"-">> \o g : f \in Fields, g \in Fields}
    \cup Fields
    \cup {<<"0", "-", "0", ",", "1", "-", "1">>, <<"0", "-", "1", ",", "9", "-">>}

RangeHeaders ==
  {NoHeader} \cup {BytesEq \o b : b \in Bodies}
    \cup {<<"b", "i", "t", "s", "=", "0", "-", "0">>, <<"0", "-", "0">>}

DefaultUrl == <<"/", "a", ".", "m", "p", "4">>

Urls ==
  {DefaultUrl,
   <<"/", ".", ".">>,
   <<"/", ".", ".", "/", "a", ".", "m", "p", "4">>,
   <<"/", "a", ".", ".", "m", "p", "4">>,
   <<"/", "a", ".", "m", "p", "4", ".", "b", "i", "n">>,
   <<"/", "x", ".", "t", "s">>,
   <<"/", "s", ".", "v", "t", "t">>,
   <<"/", "a", ".", "b">>}

B00 == BytesEq \o <<"0", "-", "0">>

Inputs ==
  [method : {"GET"}, url : {DefaultUrl}, range : RangeHeaders,
   stat : {"reg"}, fopen : {TRUE}, create : {TRUE}, queue : {TRUE}]
    \cup
  [method : {"GET", "POST"}, url : Urls, range : {NoHeader, B00},
   stat : {"enoent", "notreg", "reg"}, fopen : BOOLEAN, create : BOOLEAN,
   queue : BOOLEAN]

Serve(c) == \E inp \in Inputs : handle_request(c, inp)

Next ==
  \/ Serve("c1")
  \/ Pull("c1")
  \/ Disconnect("c1")
  \/ Release("c1")
  \/ Tick

Spec == Init /\ [][Next]_vars

\* The transport's event loop keeps running: a response that is being sent
\* is pulled, completed, aborted or dropped, and then released.
Transport(c) == Pull(c) \/ Disconnect(c) \/ Release(c)

SpecLive == Spec /\ WF_vars(Transport("c1"))

-----------------------------------------------------------------------------
(* The single-range grammar of the Range header, read off the header text  *)
(* itself: bytes=<digits>-<digits>, bytes=<digits>-, bytes=-<digits>.      *)

AllDigits(s) == s # <<>> /\ \A i \in 1..Len(s) : IsDigit(s[i])

RECURSIVE Decimal(_)
Decimal(s) ==
  IF s = <<>> THEN 0
  ELSE Decimal(SubSeq(s, 1, Len(s) - 1)) * 10 + DigitVal(s[Len(s)])

HasBytesPrefix(h) == h # NoHeader /\ Len(h) >= 6 /\ SubSeq(h, 1, 6) = BytesEq

SpecBody(h) == SubSeq(h, 7, Len(h))

\* bytes=N-M, split at position k of the body
SplitsNM(b, k) ==
  /\ b[k] = "-"
  /\ AllDigits(SubSeq(b, 1, k - 1))
  /\ AllDigits(SubSeq(b, k + 1, Len(b)))

FormNM(h) == HasBytesPrefix(h) /\ \E k \in 1..Len(SpecBody(h)) : SplitsNM(SpecBody(h), k)

FormNOpen(h) ==
  /\ HasBytesPrefix(h)
  /\ Len(SpecBody(h)) >= 2
  /\ SpecBody(h)[Len(SpecBody(h))] = "-"
  /\ AllDigits(SubSeq(SpecBody(h), 1, Len(SpecBody(h)) - 1))

FormSuffix(h) ==
  /\ HasBytesPrefix(h)
  /\ Len(SpecBody(h)) >= 2
  /\ SpecBody(h)[1] = "-"
  /\ AllDigits(Tail(SpecBody(h)))

ValidSingleRange(h) == FormNM(h) \/ FormNOpen(h) \/ FormSuffix(h)

MultiRange(h) == HasBytesPrefix(h) /\ \E i \in 1..Len(SpecBody(h)) : SpecBody(h)[i] = ","

\* The numbers of a header of one of the three forms.
NMStart(h) ==
  LET b == SpecBody(h) IN Decimal(SubSeq(b, 1, (CHOOSE k \in 1..Len(b) : SplitsNM(b, k)) - 1))
NMEnd(h) ==
  LET b == SpecBody(h) IN Decimal(SubSeq(b, (CHOOSE k \in 1..Len(b) : SplitsNM(b, k)) + 1, Len(b)))
OpenStart(h) == Decimal(SubSeq(SpecBody(h), 1, Len(SpecBody(h)) - 1))
SuffixLen(h) == Decimal(Tail(SpecBody(h)))

HasDotDot(u) == \E i \in 1..(Len(u) - 1) : u[i] = "." /\ u[i + 1] = "."

\* handle_request has run on connection c / has queued a 200 or 206.
Handled(c) == phase[c] # "idle"
Served(c) == resp[c].status # 0 /\ resp[c].queued

\* The window of a served response: what Content-Range announces, and for a
\* response without Content-Range the whole declared length.
WinStart(c) == IF resp[c].content_range # NoRange THEN resp[c].content_range[1] ELSE 0
WinEnd(c) ==
  IF resp[c].content_range # NoRange
    THEN resp[c].content_range[2]
    ELSE resp[c].content_length - 1

\* The file bytes at absolute offsets a..b inclusive.
FileSlice(a, b) == [i \in 1..(b - a + 1) |-> DiskByte(a + i - 1)]

\* The transport ran the body to its end without the client leaving and
\* without an I/O failure.
RanToEnd(c) == phase[c] = "closed" /\ xfer[c].fin \in {"complete", "eos"}

-----------------------------------------------------------------------------
\* C1: for every file size S >= 1 and every Range header of the forms
\* bytes=N-M, bytes=N-, bytes=-N that handle_request accepts, the window it
\* serves satisfies 0 <= start <= end < S (a requested end beyond S-1 is
\* clamped to S-1).
C1_WindowInBounds ==
  \A c \in Conns :
    (Served(c) /\ fileSize >= 1 /\ ValidSingleRange(req[c].range))
      => /\ 0 <= WinStart(c)
         /\ WinStart(c) <= WinEnd(c)
         /\ WinEnd(c) < fileSize

\* C2: for every served response whose client does not disconnect, the body
\* bytes produced by the file_reader pulls add up to the declared
\* Content-Length; the reader never ends the stream before that.
C2_BodyFillsContentLength ==
  \A c \in Conns :
    (Served(c) /\ RanToEnd(c))
      => /\ xfer[c].fin = "complete"
         /\ Len(xfer[c].body) = resp[c].content_length

\* C3: for every 206 response with window [start, end], Content-Length is
\* end-start+1, Content-Range is bytes start-end/S, and the chunks pulled
\* concatenate to the file bytes start..end inclusive.
C3_PartialBodyIsWindow ==
  \A c \in Conns :
    (Served(c) /\ resp[c].status = 206)
      => /\ resp[c].content_range # NoRange
         /\ resp[c].content_range[3] = fileSize
         /\ resp[c].content_length = WinEnd(c) - WinStart(c) + 1
         /\ RanToEnd(c) => xfer[c].body = FileSlice(WinStart(c), WinEnd(c))

\* C4: a suffix range bytes=-N (N >= 1) on a file of size S >= 1 is served
\* as 206 for the last N bytes: start = S-N if N < S, 0 otherwise, end = S-1,
\* Content-Length = min(N, S).
C4_SuffixServesLastBytes ==
  \A c \in Conns :
    (Handled(c) /\ FormSuffix(req[c].range) /\ SuffixLen(req[c].range) >= 1
       /\ fileSize >= 1)
      => /\ io[c].refusal # "range"
         /\ Served(c) =>
              LET n == SuffixLen(req[c].range)
                  start == IF n < fileSize THEN fileSize - n ELSE 0
              IN  /\ resp[c].status = 206
                  /\ resp[c].content_range = <<start, fileSize - 1, fileSize>>
                  /\ resp[c].content_length = Min(n, fileSize)

\* C5: an open-ended range bytes=N- with 0 <= N < S is served as 206 with
\* start = N, end = S-1, Content-Length = S-N and Content-Range
\* bytes N-(S-1)/S; the empty text after the dash is never read as end = 0.
C5_OpenEndedRange ==
  \A c \in Conns :
    (Handled(c) /\ FormNOpen(req[c].range) /\ OpenStart(req[c].range) < fileSize)
      => /\ io[c].refusal # "range"
         /\ Served(c) =>
              LET n == OpenStart(req[c].range)
              IN  /\ resp[c].status = 206
                  /\ resp[c].content_range = <<n, fileSize - 1, fileSize>>
                  /\ resp[c].content_length = fileSize - n
                  /\ phase[c] = "streaming" => fs[c].offset_base = n
                  /\ RanToEnd(c) => xfer[c].body = FileSlice(n, fileSize - 1)

C5_Witness ==
  \E c \in Conns :
    /\ FormNOpen(req[c].range)
    /\ OpenStart(req[c].range) >= 1
    /\ OpenStart(req[c].range) + 1 < fileSize
    /\ Served(c)
    /\ xfer[c].fin = "complete"

\* C6: a GET without a Range header is served with status 200 and
\* Content-Length equal to the file size S for every S >= 0, the empty file
\* included (200, Content-Length 0).
C6_NoRangeFullLength ==
  \A c \in Conns :
    (Served(c) /\ req[c].range = NoHeader)
      => /\ resp[c].status = 200
         /\ resp[c].content_length = fileSize

\* The header's start is at or beyond the file size, or exceeds its end (a
\* suffix range starts at 0 when the file is empty).
OutOfBounds(h, size) ==
  \/ FormNM(h) /\ (NMStart(h) >= size \/ NMStart(h) > NMEnd(h))
  \/ FormNOpen(h) /\ OpenStart(h) >= size
  \/ FormSuffix(h) /\ size = 0

\* C7: a Range header whose start is at or beyond the file size, or whose
\* start exceeds its end, is rejected: no response is queued, no FileState
\* is created and no body is streamed, for every S >= 0.
C7_OutOfBoundsRejected ==
  \A c \in Conns :
    (Handled(c) /\ OutOfBounds(req[c].range, fileSize))
      => /\ phase[c] = "refused"
         /\ resp[c] = NoResp
         /\ fs[c] = NoState
         /\ io[c].news = 0
         /\ io[c].freads = 0
         /\ io[c].open = 0
         /\ xfer[c] = NoXfer

C7_Witness ==
  \E c \in Conns :
    /\ io[c].refusal = "range"
    /\ fileSize = 0
    /\ FormNOpen(req[c].range)
    /\ OpenStart(req[c].range) = 0

\* C8: a Range header with several comma-separated ranges is treated as if
\* no Range header were present: 200, Content-Length S, no Content-Range,
\* the body is the full file.
C8_MultiRangeIgnored ==
  \A c \in Conns :
    (Handled(c) /\ MultiRange(req[c].range) /\ fileSize >= 1)
      => /\ io[c].refusal # "range"
         /\ Served(c) =>
              /\ resp[c].status = 200
              /\ resp[c].content_length = fileSize
              /\ resp[c].content_range = NoRange
              /\ RanToEnd(c) => xfer[c].body = FileSlice(0, fileSize - 1)

\* C9: a served response is a 206 with Content-Range if and only if the
\* request carried a Range header valid under the single-range grammar; a
\* missing header or one whose start/end text is not a number gives 200
\* without Content-Range.
C9_PartialIffValidRange ==
  \A c \in Conns :
    Served(c)
      => IF ValidSingleRange(req[c].range)
           THEN resp[c].status = 206 /\ resp[c].content_range # NoRange
           ELSE resp[c].status = 200 /\ resp[c].content_range = NoRange

\* C10: a request whose URL path contains ".." is refused before any stat,
\* fopen or read: no file is opened, no file byte is read and no response
\* is queued, whatever the headers are.
C10_DotDotTouchesNoFile ==
  \A c \in Conns :
    (Handled(c) /\ HasDotDot(req[c].url))
      => /\ phase[c] = "refused"
         /\ io[c].stats = 0
         /\ io[c].fopens = 0
         /\ io[c].freads = 0
         /\ io[c].open = 0
         /\ resp[c] = NoResp
         /\ fs[c] = NoState
         /\ xfer[c] = NoXfer

C10_Witness ==
  \E c \in Conns :
    /\ req[c].method = "GET"
    /\ HasDotDot(req[c].url)
    /\ req[c].url[2] # "."
    /\ req[c].range # NoHeader
    /\ io[c].refusal = "dotdot"

-----------------------------------------------------------------------------
(* file_reader as a function of its arguments: the reader is called at any  *)
(* logical offset with any buffer size, not only where the transport's      *)
(* write position stands.                                                   *)

B1Open == BytesEq \o <<"1", "-">>
B01    == BytesEq \o <<"0", "-", "1">>
B19    == BytesEq \o <<"1", "-", "9">>

ReaderInputs ==
  [method : {"GET"}, url : {DefaultUrl}, range : {NoHeader, B00, B01, B1Open, B19},
   stat : {"reg"}, fopen : {TRUE}, create : {TRUE}, queue : {TRUE}]

ServeReader(c) == \E inp \in ReaderInputs : handle_request(c, inp)

ReadAt(c) ==
  /\ phase[c] = "streaming"
  /\ acct.calls < MaxCalls
  /\ \E pos \in 0..(fileSize + 1), max \in 1..MaxPull, io_ok \in BOOLEAN :
       LET rr == file_reader(fs[c], pos, max, io_ok, fileSize, now)
       IN  /\ fs' = [fs EXCEPT ![c] = rr.s]
           /\ io' = [io EXCEPT ![c].freads = @ + rr.freads,
                               ![c].emits = IF rr.printed THEN Append(@, now) ELSE @]
           /\ rd' = [rd EXCEPT ![c] = [pos |-> pos, max |-> max, n |-> rr.n,
                                       buf |-> rr.buf, ok |-> io_ok]]
  /\ acct' = [acct EXCEPT !.calls = @ + 1]
  /\ UNCHANGED <<fileSize, now, phase, req, resp, xfer, thr>>

NextReader == ServeReader("c1") \/ ReadAt("c1") \/ Tick

SpecReader == Init /\ [][NextReader]_vars

-----------------------------------------------------------------------------
(* Two connections served by the one event-loop thread of                   *)
(* MHD_USE_SELECT_INTERNALLY: the handler and the callbacks of the two      *)
(* requests interleave in any order.  Both requests name the same file.     *)

TwoInputs ==
  [method : {"GET"}, url : {DefaultUrl}, range : {NoHeader, B00, B1Open},
   stat : {"reg"}, fopen : {TRUE}, create : {TRUE}, queue : BOOLEAN]

ServeTwo(c) == \E inp \in TwoInputs : handle_request(c, inp)

NextTwo ==
  \/ \E c \in Conns : ServeTwo(c)
  \/ \E c \in Conns : Pull(c)
  \/ \E c \in Conns : Disconnect(c)
  \/ \E c \in Conns : Release(c)
  \/ Tick

SpecTwo == Init /\ [][NextTwo]_vars

-----------------------------------------------------------------------------
(* file_reader step by step: invocations on the FileState of one request  *)
(* run on several threads, and each library call, each atomic operation    *)
(* on total_sent / since_last and each access to last_print is one step.   *)
(* The FILE and its position are shared by the invocations.                *)

AtomicInputs ==
  [method : {"GET"}, url : {DefaultUrl}, range : {NoHeader, B1Open},
   stat : {"reg"}, fopen : {TRUE}, create : {TRUE}, queue : {TRUE}]

ServeAtomic(c) == \E inp \in AtomicInputs : handle_request(c, inp)

\* The thread t is inside file_reader.
InProgress(t) == thr[t].pc # "out"

\* file_reader returns on thread t; n is the byte count (0 for
\* MHD_CONTENT_READER_END_OF_STREAM, which reports no bytes).
Return(t, n) ==
  /\ thr' = [thr EXCEPT ![t] = NoThread]
  /\ acct' = [acct EXCEPT !.returned = @ + n]

\* The transport calls file_reader(cls, pos, buf, max) on thread t, at an
\* offset inside the body and with a buffer the body still fills.
Enter(c, t) ==
  /\ phase[c] = "streaming"
  /\ ~InProgress(t)
  /\ acct.calls < MaxCalls
  /\ \E pos \in 0..(resp[c].content_length - 1) :
     \E max \in PullSizes(pos, resp[c].content_length) :
       thr' = [thr EXCEPT ![t] = [NoThread EXCEPT !.pc = "seek", !.pos = pos,
                                                   !.max = max]]
  /\ acct' = [acct EXCEPT !.calls = @ + 1,
                          !.overlap = @ \/ \E u \in Threads \ {t} : InProgress(u)]
  /\ UNCHANGED <<fileSize, now, phase, req, fs, resp, io, xfer, rd>>

\* Lines 40-42: fseeko on the shared FILE.
Seek(c, t) ==
  /\ thr[t].pc = "seek"
  /\ \E io_ok \in BOOLEAN :
       LET off == SeekOffset(fs[c], thr[t].pos)
       IN  IF io_ok /\ off < WordMod \div 2
             THEN /\ acct' = [acct EXCEPT !.fpos = off]
                  /\ thr' = [thr EXCEPT ![t].pc = "fread"]
             ELSE Return(t, 0)
  /\ UNCHANGED <<fileSize, now, phase, req, fs, resp, io, xfer, rd>>

\* Lines 43-49: fread from wherever the shared position stands.
ReadFile(c, t) ==
  /\ thr[t].pc = "fread"
  /\ \E io_ok \in BOOLEAN :
       LET r == IF io_ok THEN Fread(acct.fpos, thr[t].max, fileSize) ELSE 0
       IN  IF r = 0
             THEN Return(t, 0)
             ELSE /\ acct' = [acct EXCEPT !.fpos = @ + r]
                  /\ thr' = [thr EXCEPT ![t].pc = "add_total", ![t].r = r]
  /\ io' = [io EXCEPT ![c].freads = @ + 1]
  /\ UNCHANGED <<fileSize, now, phase, req, fs, resp, xfer, rd>>

\* Line 51.
AddTotal(c, t) ==
  /\ thr[t].pc = "add_total"
  /\ fs' = [fs EXCEPT ![c] = AddTotalSent(@, thr[t].r)]
  /\ thr' = [thr EXCEPT ![t].pc = "add_since"]
  /\ UNCHANGED <<fileSize, now, phase, req, resp, io, xfer, rd, acct>>

\* Line 52.
AddSince(c, t) ==
  /\ thr[t].pc = "add_since"
  /\ fs' = [fs EXCEPT ![c] = AddSinceLast(@, thr[t].r)]
  /\ thr' = [thr EXCEPT ![t].pc = "clock"]
  /\ UNCHANGED <<fileSize, now, phase, req, resp, io, xfer, rd, acct>>

\* last_print is a plain time_point: a read of it while another invocation
\* is about to store to it is a data race, and the test of line 57 may then
\* go either way.
ElapsedOutcomes(c, t) ==
  IF \E u \in Threads \ {t} : thr[u].pc \in {"exchange", "print", "store"}
    THEN BOOLEAN
    ELSE {ShouldPrint(fs[c], now)}

\* Lines 55-57: the clock is read and elapsed compared with 0.45; below
\* the threshold the invocation returns r (line 73).
Clock(c, t) ==
  /\ thr[t].pc = "clock"
  /\ \E go \in ElapsedOutcomes(c, t) :
       IF go
         THEN /\ thr' = [thr EXCEPT ![t].pc = "exchange", ![t].t = now]
              /\ acct' = acct
         ELSE Return(t, thr[t].r)
  /\ UNCHANGED <<fileSize, now, phase, req, fs, resp, io, xfer, rd>>

\* Line 58: b = s->since_last.exchange(0).
Exchange(c, t) ==
  /\ thr[t].pc = "exchange"
  /\ fs' = [fs EXCEPT ![c] = ExchangeSinceLast(@)]
  /\ thr' = [thr EXCEPT ![t].pc = "print", ![t].seen = fs[c].since_last]
  /\ acct' = [acct EXCEPT !.swapped = @ + fs[c].since_last]
  /\ UNCHANGED <<fileSize, now, phase, req, resp, io, xfer, rd>>

\* Lines 59-69: the throughput line with b and total_sent.load().
PrintLine(c, t) ==
  /\ thr[t].pc = "print"
  /\ io' = [io EXCEPT ![c].emits = Append(@, thr[t].t)]
  /\ thr' = [thr EXCEPT ![t].pc = "store"]
  /\ UNCHANGED <<fileSize, now, phase, req, fs, resp, xfer, rd, acct>>

\* Lines 70-73: last_print = now; return r.
StoreReturn(c, t) ==
  /\ thr[t].pc = "store"
  /\ fs' = [fs EXCEPT ![c] = StoreLastPrint(@, thr[t].t)]
  /\ Return(t, thr[t].r)
  /\ UNCHANGED <<fileSize, now, phase, req, resp, io, xfer, rd>>

NextAtomic ==
  \/ ServeAtomic("c1")
  \/ \E t \in Threads : Enter("c1", t)
  \/ \E t \in Threads : Seek("c1", t)
  \/ \E t \in Threads : ReadFile("c1", t)
  \/ \E t \in Threads : AddTotal("c1", t)
  \/ \E t \in Threads : AddSince("c1", t)
  \/ \E t \in Threads : Clock("c1", t)
  \/ \E t \in Threads : Exchange("c1", t)
  \/ \E t \in Threads : PrintLine("c1", t)
  \/ \E t \in Threads : StoreReturn("c1", t)
  \/ Tick

SpecAtomic == Init /\ [][NextAtomic]_vars

-----------------------------------------------------------------------------
\* MHD_create_response_from_callback returned a response for connection c.
Created(c) == resp[c].status # 0

\* C11: for every response handle_request created, file_free runs exactly
\* once (never zero times, never twice), whether streaming completes, the
\* reader ends the stream early, queuing fails or the client disconnects;
\* afterwards the file handle is closed, the FileState is freed and
\* file_reader is not invoked on it again.
C11_ReleasedExactlyOnce ==
  /\ [](\A c \in Conns :
          Created(c) =>
            /\ io[c].frees <= 1
            /\ phase[c] = "streaming" =>
                 io[c].frees = 0 /\ io[c].open = 1 /\ fs[c] # NoState
            /\ phase[c] = "closed" =>
                 /\ io[c].frees = 1
                 /\ io[c].open = 0
                 /\ io[c].fcloses = 1
                 /\ io[c].deletes = 1
                 /\ fs[c] = NoState)
  /\ [][\A c \in Conns :
          io[c].frees >= 1 =>
            /\ io'[c].frees = io[c].frees
            /\ io'[c].freads = io[c].freads
            /\ fs'[c] = NoState]_vars
  /\ \A c \in Conns : Created(c) ~> (io[c].frees = 1)

C11_Witness ==
  \E c \in Conns :
    /\ xfer[c].fin = "disconnect"
    /\ io[c].freads >= 1
    /\ io[c].frees = 1
    /\ io[c].open = 0

\* C12: on every refusal path of handle_request (method, "..", stat, fopen,
\* Range out of bounds, response creation), when the handler returns no file
\* handle of the request is open, no FileState is allocated, each opened
\* handle was closed exactly once and no 200 or 206 response is queued.
C12_RefusalLeavesNothing ==
  \A c \in Conns :
    phase[c] = "refused" =>
      /\ io[c].refusal \in {"method", "dotdot", "stat", "fopen", "range", "create"}
      /\ io[c].open = 0
      /\ io[c].fcloses = io[c].fopened
      /\ io[c].news = io[c].deletes
      /\ io[c].frees = 0
      /\ fs[c] = NoState
      /\ resp[c] = NoResp
      /\ xfer[c] = NoXfer

C12_Witness ==
  \E c \in Conns :
    /\ phase[c] = "refused"
    /\ io[c].refusal = "range"
    /\ io[c].fopened = 1
    /\ io[c].fcloses = 1

\* C13: the total_sent that file_free reads at release equals the sum of the
\* byte counts returned by all file_reader calls of the request; a pull that
\* returns end-of-stream adds nothing.
C13_TotalSentIsDelivered ==
  \A c \in Conns :
    /\ phase[c] = "streaming" => fs[c].total_sent = Len(xfer[c].body)
    /\ io[c].frees >= 1 => io[c].done_total = Len(xfer[c].body)

C13_Witness ==
  \E c \in Conns :
    /\ phase[c] = "closed"
    /\ xfer[c].fin = "eos"
    /\ io[c].done_total >= 2
    /\ io[c].emits # <<>>

\* The suffix match of the Content-Type table, in its priority order.
EndsWith(u, x) == Len(u) >= Len(x) /\ SubSeq(u, Len(u) - Len(x) + 1, Len(u)) = x

SuffixMime(u) ==
  IF EndsWith(u, <<".", "m", "p", "4">>) THEN "video/mp4"
  ELSE IF EndsWith(u, <<".", "m", "3", "u", "8">>) THEN "application/x-mpegURL"
  ELSE IF EndsWith(u, <<".", "t", "s">>) THEN "video/mp2t"
  ELSE IF EndsWith(u, <<".", "h", "t", "m", "l">>) THEN "text/html; charset=utf-8"
  ELSE IF EndsWith(u, <<".", "j", "s">>) THEN "application/javascript"
  ELSE IF EndsWith(u, <<".", "c", "s", "s">>) THEN "text/css"
  ELSE IF EndsWith(u, <<".", "j", "p", "g">>) \/ EndsWith(u, <<".", "j", "p", "e", "g">>)
    THEN "image/jpeg"
  ELSE IF EndsWith(u, <<".", "p", "n", "g">>) THEN "image/png"
  ELSE IF EndsWith(u, <<".", "g", "i", "f">>) THEN "image/gif"
  ELSE IF EndsWith(u, <<".", "v", "t", "t">>) THEN "text/vtt; charset=utf-8"
  ELSE IF EndsWith(u, <<".", "s", "r", "t">>) THEN "application/x-subrip"
  ELSE "application/octet-stream"

\* C14: the Content-Type of a served response is chosen by case-sensitive
\* suffix match of the URL path against the extension list in priority
\* order, otherwise application/octet-stream; an extension that occurs in the
\* path but not as its suffix does not select that extension's type.
C14_MimeBySuffix ==
  \A c \in Conns : Created(c) => resp[c].content_type = SuffixMime(req[c].url)

\* The throughput lines of connection c are at least 0.45 s apart, the first
\* at least 0.45 s after the FileState was constructed.
EmitsSpaced(c) ==
  LET e == io[c].emits
  IN  /\ e # <<>> => e[1] - io[c].born >= PrintAfter
      /\ \A i \in 1..(Len(e) - 1) : e[i + 1] - e[i] >= PrintAfter

\* C16: a throughput line is emitted only on a successful read at which at
\* least 0.45 s have passed since last_print; each emission sets since_last
\* to 0 and last_print to the current time, so consecutive emissions are at
\* least 0.45 s apart and the first at least 0.45 s after construction; a
\* read with less elapsed time leaves last_print unchanged.
C16_EmissionsAreSpaced ==
  /\ [](\A c \in Conns : EmitsSpaced(c))
  /\ [][\A c \in Conns :
          (phase[c] = "streaming" /\ phase'[c] = "streaming") =>
            LET read    == Len(xfer'[c].body) > Len(xfer[c].body)
                emitted == Len(io'[c].emits) > Len(io[c].emits)
                elapsed == now - fs[c].last_print
            IN  /\ emitted =>
                     /\ read
                     /\ elapsed >= PrintAfter
                     /\ fs'[c].since_last = 0
                     /\ fs'[c].last_print = now
                /\ fs'[c].last_print # fs[c].last_print => emitted
                /\ (read /\ elapsed >= PrintAfter) => emitted
                /\ (read /\ elapsed < PrintAfter) =>
                     fs'[c].last_print = fs[c].last_print]_vars

C16_Witness ==
  \E c \in Conns :
    /\ Len(io[c].emits) = 2
    /\ phase[c] = "streaming"
    /\ fs[c].since_last = 0

\* C20: the Content-Length computed as end - start + 1 in 64-bit unsigned
\* arithmetic never wraps: for every served request it is at least 1 when
\* the file is not empty and never exceeds the file bytes available from
\* start (S - start).
C20_ContentLengthInFile ==
  \A c \in Conns :
    Served(c) =>
      /\ fileSize >= 1 => resp[c].content_length >= 1
      /\ resp[c].content_length <= fileSize - WinStart(c)

\* C17: the pull read(pos, max) returns at most max bytes, those bytes are
\* the file bytes at absolute offsets [offset_base+pos,
\* offset_base+pos+returned), and it returns END whenever pos >= length (the
\* window's Content-Length) even if the file has more bytes after the
\* window, as well as at the file's end or on an I/O failure.
C17_ReaderStaysInWindow ==
  \A c \in Conns :
    (phase[c] = "streaming" /\ rd[c].n >= 0) =>
      LET from == fs[c].offset_base + rd[c].pos
      IN  /\ rd[c].n <= rd[c].max
          /\ Len(rd[c].buf) = rd[c].n
          /\ rd[c].n > 0 => rd[c].buf = FileSlice(from, from + rd[c].n - 1)
          /\ rd[c].pos >= resp[c].content_length => rd[c].n = 0
          /\ (from >= fileSize \/ ~rd[c].ok) => rd[c].n = 0

\* What belongs to the request on connection c.
Own(c) == <<phase[c], req[c], fs[c], resp[c], io[c], xfer[c]>>

\* The step is the handler or a callback of connection c.
StepOf(c) == xfer'[c] # xfer[c] \/ phase'[c] # phase[c] \/ io'[c] # io[c]

\* C18: under any interleaving of the handler, the pulls and the releases of
\* two concurrent requests (also for the same file), each request uses its
\* own file handle and FileState, its body bytes, total_sent and since_last
\* are what they are when it runs alone, and a pull or release of one
\* request leaves the other request's state unchanged.
C18_RequestsAreIndependent ==
  /\ [](\A c \in Conns :
          /\ phase[c] = "streaming" =>
               /\ fs[c] # NoState
               /\ io[c].open = 1
               /\ fs[c].offset_base = WinStart(c)
               /\ fs[c].total_sent = Len(xfer[c].body)
               /\ fs[c].since_last <= fs[c].total_sent
               /\ io[c].emits = <<>> => fs[c].since_last = fs[c].total_sent
          /\ Served(c) =>
               xfer[c].body =
                 FileSlice(WinStart(c), WinStart(c) + Len(xfer[c].body) - 1)
          /\ io[c].frees >= 1 => io[c].done_total = Len(xfer[c].body))
  /\ [][\A c \in Conns : \A d \in Conns \ {c} :
          StepOf(c) => Own(d)' = Own(d)]_vars

C18_Witness ==
  /\ phase["c1"] = "closed"
  /\ xfer["c1"].fin = "complete"
  /\ Len(xfer["c1"].body) >= 2
  /\ req["c2"] = req["c1"]
  /\ phase["c2"] = "streaming"
  /\ Len(xfer["c2"].body) = 1

\* C15: in every state of a request's meter, the state between the two
\* increments of file_reader and the state after an emission's exchange
\* included, since_last <= total_sent, and no step lowers total_sent.
C15_SinceLastWithinTotal ==
  /\ [](\A c \in Conns :
          fs[c] # NoState => fs[c].since_last <= fs[c].total_sent)
  /\ [][\A c \in Conns :
          fs[c] # NoState /\ fs'[c] # NoState =>
            fs'[c].total_sent >= fs[c].total_sent]_vars

C15_Witness ==
  /\ thr["t1"].pc = "add_since"
  /\ thr["t2"].pc = "print"
  /\ thr["t2"].seen > 0
  /\ fs["c1"].since_last = 0
  /\ fs["c1"].total_sent > thr["t2"].seen

\* No invocation of file_reader is in progress.
Quiescent == \A t \in Threads : ~InProgress(t)

\* C19: under any interleaving of the steps of file_reader invocations on
\* one FileState, whenever no invocation is in progress total_sent is the sum
\* of the byte counts returned, and it is since_last plus the sum of the
\* byte counts the emissions swapped out.
C19_NoByteLostOrDoubled ==
  \A c \in Conns :
    Quiescent /\ fs[c] # NoState =>
      /\ fs[c].total_sent = acct.returned
      /\ fs[c].total_sent = fs[c].since_last + acct.swapped

C19_Witness ==
  /\ Quiescent
  /\ acct.overlap
  /\ acct.returned >= 2
  /\ acct.swapped > 0
  /\ fs["c1"] # NoState
  /\ fs["c1"].since_last > 0

====
